---------------------------- MODULE Spec2Model ----------------------------
(***************************************************************************)
(* Model of src/gaming_bot.py: the gaming-news bot.  One process           *)
(* invocation (the __main__ block) prunes the Dedup Store, searches the    *)
(* feeds for one fresh, matched, not-yet-sent item, delivers it and        *)
(* records its fingerprint, or falls back to a curated post.               *)
(*                                                                         *)
(* Abstractions (all stated where they are made):                          *)
(*  - text is a sequence of words; str.lower() is LowerTable applied word  *)
(*    by word; `a in b` on strings is containment of a contiguous run of   *)
(*    words;                                                               *)
(*  - a date string is its strptime/feedparser format class plus the       *)
(*    wall-clock instant it denotes, in seconds;                           *)
(*  - time is integer seconds; datetime.now() and sqlite's                 *)
(*    CURRENT_TIMESTAMP / datetime("now") read the same clock `now`;       *)
(*  - hashlib.md5 is collision-free: the digest is the hashed content.     *)
(***************************************************************************)
EXTENDS Integers, Sequences, FiniteSets, TLC

(***************************************************************************)
(* Bounds of the model                                                     *)
(***************************************************************************)
MaxRuns    == 2      \* process invocations explored
MaxTicks   == 2      \* clock advances explored
SourcesToCheck == 2  \* sources checked per invocation (the code: GAMING_SOURCES[:8])

(***************************************************************************)
(* Program constants                                                       *)
(***************************************************************************)
ENTRIES_TO_CHECK  == 8       \* feed.entries[:8]
FRESH_TO_PROCESS  == 3       \* fresh_entries[:3]
ENTITIES_TO_CHECK == 30      \* GAMING_ENTITIES[:30]
MAX_HOURS_OLD     == 12      \* is_recent_gaming_news(entry, max_hours_old=12)
SECONDS_PER_HOUR  == 3600    \* time_diff.total_seconds() / 3600
RETENTION_DAYS    == 5       \* cleanup_old_news(days=5)
SECONDS_PER_DAY   == 86400   \* sqlite: datetime("now", "-N days")
TITLE_LIMIT       == 200     \* title[:200]
MIN_IMAGE_BYTES   == 5000    \* len(image_response.content) > 5000
HTTP_OK           == 200     \* status_code == 200

T0 == 1000000                \* the clock at the first process start

(***************************************************************************)
(* Text: words, lower(), substring                                         *)
(***************************************************************************)
GAMING_ENTITIES ==
    << <<"Nintendo">>, <<"Sony">>, <<"Microsoft">>,
       <<"Valve">>, <<"Electronic", "Arts">>, <<"Ubisoft">>,
       <<"Activision">>, <<"Blizzard">>, <<"Square", "Enix">>,
       <<"Capcom">>, <<"Bandai", "Namco">>, <<"Sega">>,
       <<"Epic", "Games">>, <<"CD", "Projekt">>, <<"Rockstar", "Games">>,
       <<"Bethesda">>, <<"Naughty", "Dog">>, <<"FromSoftware">>,
       <<"BioWare">>, <<"Bungie">>, <<"The", "Legend", "of", "Zelda">>,
       <<"Mario">>, <<"Halo">>, <<"Call", "of", "Duty">>,
       <<"Fortnite">>, <<"Minecraft">>, <<"GTA">>,
       <<"Elden", "Ring">>, <<"Cyberpunk", "2077">>, <<"Starfield">>,
       <<"God", "of", "War">>, <<"The", "Last", "of", "Us">>, <<"Final", "Fantasy">>,
       <<"Resident", "Evil">>, <<"Dark", "Souls">>, <<"Overwatch">>,
       <<"World", "of", "Warcraft">>, <<"Apex", "Legends">>, <<"Valorant">>,
       <<"League", "of", "Legends">>, <<"Dota", "2">>, <<"Counter-Strike">>,
       <<"Battlefield">>, <<"Assassin's", "Creed">>, <<"Far", "Cry">>,
       <<"Watch", "Dogs">>, <<"The", "Witcher">>, <<"Fallout">>,
       <<"Elder", "Scrolls">>, <<"Doom">>, <<"Animal", "Crossing">>,
       <<"Pokémon">>, <<"Metroid">>, <<"Street", "Fighter">>,
       <<"Tekken">>, <<"Sonic">>, <<"Persona">>,
       <<"Mass", "Effect">>, <<"Dragon", "Age">> >>

LowerTable ==
    { <<"Nintendo", "nintendo">>, <<"Sony", "sony">>, <<"Microsoft", "microsoft">>, <<"Valve", "valve">>,
       <<"Electronic", "electronic">>, <<"Arts", "arts">>, <<"Ubisoft", "ubisoft">>, <<"Activision", "activision">>,
       <<"Blizzard", "blizzard">>, <<"Square", "square">>, <<"Enix", "enix">>, <<"Capcom", "capcom">>,
       <<"Bandai", "bandai">>, <<"Namco", "namco">>, <<"Sega", "sega">>, <<"Epic", "epic">>,
       <<"Games", "games">>, <<"CD", "cd">>, <<"Projekt", "projekt">>, <<"Rockstar", "rockstar">>,
       <<"Bethesda", "bethesda">>, <<"Naughty", "naughty">>, <<"Dog", "dog">>, <<"FromSoftware", "fromsoftware">>,
       <<"BioWare", "bioware">>, <<"Bungie", "bungie">>, <<"The", "the">>, <<"Legend", "legend">>,
       <<"Zelda", "zelda">>, <<"Mario", "mario">>, <<"Halo", "halo">>, <<"Call", "call">>,
       <<"Duty", "duty">>, <<"Fortnite", "fortnite">>, <<"Minecraft", "minecraft">>, <<"GTA", "gta">>,
       <<"Elden", "elden">>, <<"Ring", "ring">>, <<"Cyberpunk", "cyberpunk">>, <<"Starfield", "starfield">>,
       <<"God", "god">>, <<"War", "war">>, <<"Last", "last">>, <<"Us", "us">>,
       <<"Final", "final">>, <<"Fantasy", "fantasy">>, <<"Resident", "resident">>, <<"Evil", "evil">>,
       <<"Dark", "dark">>, <<"Souls", "souls">>, <<"Overwatch", "overwatch">>, <<"World", "world">>,
       <<"Warcraft", "warcraft">>, <<"Apex", "apex">>, <<"Legends", "legends">>, <<"Valorant", "valorant">>,
       <<"League", "league">>, <<"Dota", "dota">>, <<"Counter-Strike", "counter-strike">>, <<"Battlefield", "battlefield">>,
       <<"Assassin's", "assassin's">>, <<"Creed", "creed">>, <<"Far", "far">>, <<"Cry", "cry">>,
       <<"Watch", "watch">>, <<"Dogs", "dogs">>, <<"Witcher", "witcher">>, <<"Fallout", "fallout">>,
       <<"Elder", "elder">>, <<"Scrolls", "scrolls">>, <<"Doom", "doom">>, <<"Animal", "animal">>,
       <<"Crossing", "crossing">>, <<"Pokémon", "pokémon">>, <<"Metroid", "metroid">>, <<"Street", "street">>,
       <<"Fighter", "fighter">>, <<"Tekken", "tekken">>, <<"Sonic", "sonic">>, <<"Persona", "persona">>,
       <<"Mass", "mass">>, <<"Effect", "effect">>, <<"Dragon", "dragon">>, <<"Age", "age">>,
       <<"SONY", "sony">>, <<"Announces", "announces">>, <<"Kart", "kart">>,
       <<"HTTPS://", "https://">>, <<"LOGO", "logo">>, <<".PNG", ".png">> }

\* str.lower() on one word: the table lists every word of the model that
\* has an upper-case letter; any other word is already lower-case.
LowerWord(w) ==
    IF \E p \in LowerTable : p[1] = w
    THEN (CHOOSE p \in LowerTable : p[1] = w)[2]
    ELSE w

\* str.lower()
Lower(text) == [i \in 1..Len(text) |-> LowerWord(text[i])]

\* Python's `needle in haystack` on strings
Contains(haystack, needle) ==
    \E i \in 0..(Len(haystack) - Len(needle)) :
        SubSeq(haystack, i + 1, i + Len(needle)) = needle

\* seq[:n]
Take(seq, n) == SubSeq(seq, 1, IF Len(seq) < n THEN Len(seq) ELSE n)

(***************************************************************************)
(* Dates                                                                   *)
(***************************************************************************)
\* An absent or empty date attribute (getattr(entry, field, None) is falsy).
NoDate == [fmt |-> "absent", t |-> 0]

\* The strptime formats of parse_rss_date, in the order they are tried:
\*   '%a, %d %b %Y %H:%M:%S %Z'   "rfc822_name"    (GMT, UTC)   -> naive
\*   '%a, %d %b %Y %H:%M:%S %z'   "rfc822_offset"  (+0000, Z)   -> aware
\*   '%Y-%m-%dT%H:%M:%SZ'         "iso_z"                       -> naive
\*   '%Y-%m-%d %H:%M:%S'          "sql"                         -> naive
\*   '%d %b %Y %H:%M:%S'          "dmy"                         -> naive
date_formats == <<"rfc822_name", "rfc822_offset", "iso_z", "sql", "dmy">>

\* A date string in a format only feedparser._parse_date understands is
\* "other"; one nothing parses is "garbage".

None == [ok |-> FALSE, aware |-> FALSE, t |-> 0]

\* datetime.strptime(date_string, fmt): succeeds iff the string is in that
\* format; only %z yields an offset-aware datetime.
Strptime(date_string, fmt) ==
    IF date_string.fmt = fmt
    THEN [ok |-> TRUE, aware |-> (fmt = "rfc822_offset"), t |-> date_string.t]
    ELSE None

RECURSIVE TryFormats(_, _)
TryFormats(date_string, i) ==
    IF i > Len(date_formats) THEN None
    ELSE IF Strptime(date_string, date_formats[i]).ok
         THEN Strptime(date_string, date_formats[i])
         ELSE TryFormats(date_string, i + 1)

parse_rss_date(date_string) ==
    IF date_string = NoDate THEN None
    ELSE IF TryFormats(date_string, 1).ok THEN TryFormats(date_string, 1)
    ELSE IF date_string.fmt = "other"
         \* datetime.fromtimestamp(time.mktime(parsed_time)): naive
         THEN [ok |-> TRUE, aware |-> FALSE, t |-> date_string.t]
         ELSE None

date_fields == <<"published", "updated", "created", "pubDate">>

RECURSIVE FirstParsedDate(_, _)
FirstParsedDate(entry, i) ==
    IF i > Len(date_fields) THEN None
    ELSE LET date_str == entry[date_fields[i]]
         IN  IF date_str # NoDate /\ parse_rss_date(date_str).ok
             THEN parse_rss_date(date_str)
             ELSE FirstParsedDate(entry, i + 1)

\* The outcome of a call: a returned boolean, or an exception.
Returned(b) == [raised |-> FALSE, value |-> b]
Raised      == [raised |-> TRUE,  value |-> FALSE]

\* `now - news_date` raises TypeError when news_date is offset-aware,
\* because datetime.now() is naive.
is_recent_gaming_news(entry, max_hours_old, clock) ==
    LET news_date == FirstParsedDate(entry, 1)
    IN  IF ~news_date.ok THEN Returned(FALSE)
        ELSE IF news_date.aware THEN Raised
        ELSE Returned((clock - news_date.t) <= max_hours_old * SECONDS_PER_HOUR)

(***************************************************************************)
(* Fingerprint and Dedup Store                                             *)
(***************************************************************************)
\* f"{entry.title}_{entry.link}_{entity}", then md5 (collision-free).
generate_gaming_news_hash(entry, entity) ==
    entry.title \o <<"_">> \o entry.link \o <<"_">> \o entity

\* A dedup check that never finds anything.
is_news_sent_Blind(db, news_hash) == FALSE

\* SELECT 1 FROM sent_news WHERE news_hash = ?
is_news_sent(db, news_hash) == \E r \in db : r.news_hash = news_hash

\* An insert into a table that lacks the UNIQUE constraint.
mark_news_sent_NoUnique(db, news_hash, game_company, title, clock) ==
    db \cup {[news_hash |-> news_hash, game_company |-> game_company,
              title |-> Take(title, TITLE_LIMIT), sent_date |-> clock]}

\* INSERT into a table whose news_hash column is UNIQUE; the IntegrityError
\* of a duplicate is swallowed.  sent_date defaults to CURRENT_TIMESTAMP.
mark_news_sent(db, news_hash, game_company, title, clock) ==
    IF \E r \in db : r.news_hash = news_hash
    THEN db
    ELSE db \cup {[news_hash |-> news_hash, game_company |-> game_company,
                   title |-> Take(title, TITLE_LIMIT), sent_date |-> clock]}

\* A prune that also deletes the row dated exactly at the cut-off.
cleanup_old_news_Inclusive(db, days, clock) ==
    {r \in db : ~(r.sent_date <= clock - days * SECONDS_PER_DAY)}

\* DELETE FROM sent_news WHERE sent_date < datetime("now", "-N days")
cleanup_old_news(db, days, clock) ==
    {r \in db : ~(r.sent_date < clock - days * SECONDS_PER_DAY)}

(***************************************************************************)
(* Entity matching                                                         *)
(***************************************************************************)
\* full_content = f"{title} {description}".lower()
full_content(entry) == Lower(entry.title \o entry.description)

\* `entity.lower() in full_content`
EntityMatches(entity, entry) == Contains(full_content(entry), Lower(entity))

\* The entity loop of find_and_send_gaming_news_optimized (lines 644-665)
\* up to the point where an entity is picked for processing.  The loop
\* walks GAMING_ENTITIES[:30]; a matching entity whose fingerprint is in the
\* store is passed over by `continue`, so the loop goes on to the next
\* matching entity.  entry.link is read by generate_gaming_news_hash, which
\* raises AttributeError for an entry without a link.
\*   kind = "pick"  : entity i is processed
\*   kind = "none"  : the loop ran out, nothing is processed
\*   kind = "raise" : the fingerprint could not be computed
RECURSIVE EntityLoop(_, _, _)
EntityLoop(entry, db, i) ==
    IF i > Len(Take(GAMING_ENTITIES, ENTITIES_TO_CHECK))
    THEN [kind |-> "none", index |-> 0, skipped |-> FALSE]
    ELSE IF ~EntityMatches(GAMING_ENTITIES[i], entry)
         THEN EntityLoop(entry, db, i + 1)
         ELSE IF ~entry.hasLink
              THEN [kind |-> "raise", index |-> i, skipped |-> FALSE]
              ELSE IF is_news_sent(db, generate_gaming_news_hash(entry, GAMING_ENTITIES[i]))
                   THEN [EntityLoop(entry, db, i + 1) EXCEPT !.skipped = TRUE]
                   ELSE [kind |-> "pick", index |-> i, skipped |-> FALSE]

(***************************************************************************)
(* Delivery client                                                         *)
(***************************************************************************)
NoImage == "None"

\* What one HTTP call of the delivery client can do: raise (timeout,
\* connection error) or answer with a status and a body length.
HttpRaise == [raised |-> TRUE, status |-> 0, len |-> 0]
HttpResp(s, n) == [raised |-> FALSE, status |-> s, len |-> n]

Call(op, out) == [op |-> op, raised |-> out.raised, status |-> out.status]

\* A delivery client that takes any answered final request for a success.
send_gaming_telegram_post_NoStatusCheck(image_url, env) ==
    IF image_url # NoImage /\ ~env.fetch.raised
       /\ env.fetch.status = HTTP_OK /\ env.fetch.len > MIN_IMAGE_BYTES
    THEN [ret |-> ~env.photo.raised, raised |-> FALSE,
          calls |-> <<Call("getImage", env.fetch), Call("sendPhoto", env.photo)>>]
    ELSE [ret |-> ~env.text.raised, raised |-> FALSE,
          calls |-> <<Call("sendMessage", env.text)>>]

\* send_gaming_telegram_post(post, image_url), given what the three HTTP
\* calls would do.  calls is the sequence of HTTP calls actually made.
send_gaming_telegram_post(image_url, env) ==
    LET text == IF env.text.raised
                THEN [ret |-> FALSE, raised |-> FALSE,
                      calls |-> <<Call("sendMessage", env.text)>>]
                ELSE [ret |-> (env.text.status = HTTP_OK), raised |-> FALSE,
                      calls |-> <<Call("sendMessage", env.text)>>]
        Prepend(c, r) == [r EXCEPT !.calls = c \o r.calls]
    IN  IF image_url # NoImage
        THEN IF env.fetch.raised
             THEN [ret |-> FALSE, raised |-> FALSE,
                   calls |-> <<Call("getImage", env.fetch)>>]
             ELSE IF env.fetch.status = HTTP_OK /\ env.fetch.len > MIN_IMAGE_BYTES
                  THEN IF env.photo.raised
                       THEN [ret |-> FALSE, raised |-> FALSE,
                             calls |-> <<Call("getImage", env.fetch),
                                         Call("sendPhoto", env.photo)>>]
                       ELSE IF env.photo.status = HTTP_OK
                            THEN [ret |-> TRUE, raised |-> FALSE,
                                  calls |-> <<Call("getImage", env.fetch),
                                              Call("sendPhoto", env.photo)>>]
                            ELSE Prepend(<<Call("getImage", env.fetch),
                                           Call("sendPhoto", env.photo)>>, text)
                  ELSE Prepend(<<Call("getImage", env.fetch)>>, text)
        ELSE text

(***************************************************************************)
(* The environment                                                         *)
(***************************************************************************)
\* Feed items as the feeds publish them; the date fields carry the age of
\* the item at the moment the feed is fetched.
Aged(fmt, age) == [fmt |-> fmt, t |-> age]

Item(title, description, link, hasLink, published, updated) ==
    [title |-> title, description |-> description, link |-> link,
     hasLink |-> hasLink, published |-> published, updated |-> updated,
     created |-> NoDate, pubDate |-> NoDate]

Threshold == MAX_HOURS_OLD * SECONDS_PER_HOUR

\* matches Nintendo (1st) and Mario (22nd); exactly at the threshold
ItemNintendoMario ==
    Item(<<"Nintendo", "Announces", "Mario", "Kart">>, <<>>, <<"link1">>, TRUE,
         Aged("rfc822_name", Threshold), NoDate)
\* matches Sony (2nd); published does not parse, updated does
ItemSony ==
    Item(<<"SONY", "update">>, <<>>, <<"link2">>, TRUE,
         Aged("garbage", 0), Aged("iso_z", 0))
\* one second past the threshold; updated would be fresh
ItemStale ==
    Item(<<"Sega", "review">>, <<>>, <<"link3">>, TRUE,
         Aged("sql", Threshold + 1), Aged("sql", 0))
\* matches only the 31st catalog entry
ItemGodOfWar ==
    Item(<<"God", "of", "War">>, <<"trailer">>, <<"link4">>, TRUE,
         Aged("other", 0), NoDate)
\* date with a numeric UTC offset
ItemOffset ==
    Item(<<"Mario", "Kart">>, <<>>, <<"link5">>, TRUE,
         Aged("rfc822_offset", 0), NoDate)
\* no title
ItemUntitled ==
    Item(<<>>, <<"Nintendo">>, <<"link6">>, TRUE, Aged("dmy", 0), NoDate)
\* no date at all
ItemUndated ==
    Item(<<"Valve">>, <<>>, <<"link7">>, TRUE, NoDate, NoDate)
\* no link attribute
ItemNoLink ==
    Item(<<"Nintendo", "direct">>, <<>>, <<>>, FALSE,
         Aged("rfc822_name", 0), NoDate)

\* The item as fetched at time clock: ages become instants.
StampDate(d, clock) == IF d = NoDate THEN d ELSE [d EXCEPT !.t = clock - d.t]
Stamp(item, clock) ==
    [item EXCEPT !.published = StampDate(@, clock),
                 !.updated   = StampDate(@, clock)]

\* feedparser.parse(url).entries: what a source may publish
Feeds ==
    { <<>>,
      <<ItemNintendoMario>>,
      <<ItemNintendoMario, ItemSony>>,
      <<ItemSony, ItemNintendoMario>>,
      <<ItemGodOfWar, ItemSony>>,
      <<ItemNintendoMario, ItemOffset>>,
      <<ItemUntitled, ItemNintendoMario>>,
      <<ItemNoLink, ItemSony>>,
      <<ItemStale, ItemUndated>> }

ImageUrls == {NoImage, "https://img/hero.jpg"}

FetchOutcomes == {HttpRaise, HttpResp(HTTP_OK, MIN_IMAGE_BYTES + 1),
                  HttpResp(HTTP_OK, MIN_IMAGE_BYTES), HttpResp(404, MIN_IMAGE_BYTES + 1)}
PostOutcomes  == {HttpRaise, HttpResp(HTTP_OK, 0), HttpResp(400, 0)}

SendEnvs == [fetch : FetchOutcomes, photo : PostOutcomes, text : PostOutcomes]

TickSteps == {1, RETENTION_DAYS * SECONDS_PER_DAY}

(***************************************************************************)
(* State                                                                   *)
(***************************************************************************)
VARIABLES
    store,        \* the sent_news table: a set of rows
    now,          \* the clock, in seconds
    pc,           \* where the process is: "idle" between invocations
    srcIdx,       \* sources of sources_to_check already checked
    fresh,        \* fresh_entries[:3] still to be processed
    cur,          \* the (entry, entity, news_hash) being processed
    runs,         \* invocations started
    ticks,        \* clock advances made
    \* history of the current invocation, kept for the properties
    pruneAt,      \* the clock when cleanup_old_news ran
    sentThisRun,  \* news deliveries that returned success
    addedThisRun, \* rows inserted
    curated,      \* send_gaming_curated_post was called
    foundMatched, \* a fresh entry matching a catalog entity was met
    lastLoop,     \* the last entity loop: entry, outcome
    delivered,    \* every news delivery that returned success, ever
    \* one call of send_gaming_telegram_post taken alone
    sendCall,     \* its arguments, what the HTTP calls do, and its result
    \* one call of is_recent_gaming_news taken alone
    freshCall,    \* its arguments and its result
    \* history of the Dedup Store
    dupMarked,    \* mark_news_sent was called for a fingerprint already present
    \* one call of an image function taken alone
    imageCall,    \* its arguments and its result
    \* two invocations of the bot running at the same time on one store
    proc,         \* per invocation: where it is and its local variables
    deliveries    \* per fingerprint: news deliveries that returned success

vars == <<store, now, pc, srcIdx, fresh, cur, runs, ticks, pruneAt,
          sentThisRun, addedThisRun, curated, foundMatched, lastLoop,
          delivered, sendCall, freshCall, dupMarked, imageCall, proc,
          deliveries>>

runState == <<pc, srcIdx, fresh, cur, runs, pruneAt, sentThisRun,
              addedThisRun, curated, foundMatched, lastLoop, delivered>>

calls == <<sendCall, freshCall, imageCall, proc, deliveries>>

alone == <<sendCall, freshCall, dupMarked, imageCall, proc, deliveries>>

NoCur  == [entry |-> Item(<<>>, <<>>, <<>>, FALSE, NoDate, NoDate),
           entity |-> <<>>, news_hash |-> <<>>]
NoLoop == [kind |-> "idle", entry |-> NoCur.entry, index |-> 0, skipped |-> FALSE]
NoEnv  == [fetch |-> HttpRaise, photo |-> HttpRaise, text |-> HttpRaise]
NoSend == [state |-> "idle", image_url |-> NoImage, env |-> NoEnv,
           ret |-> FALSE, raised |-> FALSE, calls |-> <<>>]
NoFresh == [state |-> "idle", entry |-> NoCur.entry, max_hours_old |-> 0,
            clock |-> 0, result |-> Returned(FALSE)]

NoImageCall == [state |-> "idle"]

\* The two invocations
Procs == {"A", "B"}

NoProc == [p \in Procs |->
              [pc |-> "idle", srcIdx |-> 0, fresh |-> <<>>, cur |-> NoCur,
               integrityError |-> FALSE, markError |-> FALSE]]

\* The image functions and the concurrent invocations at rest.
RestIdle ==
    /\ imageCall = NoImageCall
    /\ proc = NoProc
    /\ deliveries = <<>>

RunInit ==
    /\ store = {}
    /\ now = T0
    /\ pc = "idle"
    /\ srcIdx = 0
    /\ fresh = <<>>
    /\ cur = NoCur
    /\ runs = 0
    /\ ticks = 0
    /\ pruneAt = T0
    /\ sentThisRun = 0
    /\ addedThisRun = 0
    /\ curated = "no"
    /\ foundMatched = FALSE
    /\ lastLoop = NoLoop
    /\ delivered = {}
    /\ dupMarked = FALSE

Init ==
    /\ RunInit
    /\ sendCall = NoSend
    /\ freshCall = NoFresh
    /\ RestIdle

(***************************************************************************)
(* __main__ and find_and_send_gaming_news_optimized                        *)
(***************************************************************************)
\* The freshness loop over feed.entries[:8] (lines 624-627).  An exception
\* of is_recent_gaming_news ends the loop (it reaches the except of line
\* 667).
RECURSIVE FilterFresh(_, _, _, _)
FilterFresh(entries, clock, i, acc) ==
    IF i > Len(entries) THEN [raised |-> FALSE, fresh |-> acc]
    ELSE LET r == is_recent_gaming_news(entries[i], MAX_HOURS_OLD, clock)
         IN  IF r.raised THEN [raised |-> TRUE, fresh |-> acc]
             ELSE FilterFresh(entries, clock, i + 1,
                              IF r.value THEN Append(acc, entries[i]) ELSE acc)

\* Process start: init_database() (CREATE ... IF NOT EXISTS: the rows are
\* kept), cleanup_old_news(days=5), then the search begins.
StartRun ==
    /\ pc = "idle"
    /\ runs < MaxRuns
    /\ store' = cleanup_old_news(store, RETENTION_DAYS, now)
    /\ pruneAt' = now
    /\ pc' = "source"
    /\ srcIdx' = 0
    /\ fresh' = <<>>
    /\ cur' = NoCur
    /\ runs' = runs + 1
    /\ sentThisRun' = 0
    /\ addedThisRun' = 0
    /\ curated' = "no"
    /\ foundMatched' = FALSE
    /\ lastLoop' = NoLoop
    /\ UNCHANGED <<now, ticks, delivered, alone>>

\* Where the search goes after the freshness loop of one source:
\* `if not fresh_entries: continue`, or the except of line 667.
AfterFetch(f) ==
    IF f.raised \/ f.fresh = <<>> THEN "source" ELSE "entry"

\* One iteration of `for source in sources_to_check` up to the entry loop:
\* fetch the feed, keep the fresh entries of the first 8.  Which source it
\* is does not matter: any source can publish any feed.
FetchSource ==
    /\ pc = "source"
    /\ srcIdx < SourcesToCheck
    /\ \E feed \in Feeds :
         LET entries == [i \in 1..Len(feed) |-> Stamp(feed[i], now)]
             f == FilterFresh(Take(entries, ENTRIES_TO_CHECK), now, 1, <<>>)
         IN  /\ pc' = AfterFetch(f)
             /\ IF AfterFetch(f) = "source"
                THEN /\ srcIdx' = srcIdx + 1
                     /\ fresh' = <<>>
                ELSE /\ srcIdx' = srcIdx
                     /\ fresh' = Take(f.fresh, FRESH_TO_PROCESS)
    /\ UNCHANGED <<store, now, cur, runs, ticks, pruneAt, sentThisRun,
                   addedThisRun, curated, foundMatched, lastLoop, delivered,
                   alone>>

\* The entry loop of a source is exhausted: next source.
NextSource ==
    /\ pc = "entry"
    /\ fresh = <<>>
    /\ pc' = "source"
    /\ srcIdx' = srcIdx + 1
    /\ UNCHANGED <<store, now, fresh, cur, runs, ticks, pruneAt, sentThisRun,
                   addedThisRun, curated, foundMatched, lastLoop, delivered,
                   alone>>

\* `if not title: continue`
SkipUntitled ==
    /\ pc = "entry"
    /\ fresh # <<>>
    /\ Head(fresh).title = <<>>
    /\ fresh' = Tail(fresh)
    /\ UNCHANGED <<store, now, pc, srcIdx, cur, runs, ticks, pruneAt,
                   sentThisRun, addedThisRun, curated, foundMatched, lastLoop,
                   delivered, alone>>

\* The entity loop for one entry, up to the dedup check that lets an entity
\* through (lines 642-650).
MatchEntry ==
    /\ pc = "entry"
    /\ fresh # <<>>
    /\ Head(fresh).title # <<>>
    /\ LET entry == Head(fresh)
           res   == EntityLoop(entry, store, 1)
       IN  /\ lastLoop' = [kind |-> res.kind, entry |-> entry,
                           index |-> res.index, skipped |-> res.skipped]
           /\ foundMatched' = (foundMatched \/ res.kind # "none" \/ res.skipped)
           /\ CASE res.kind = "pick" ->
                     /\ cur' = [entry |-> entry,
                                entity |-> GAMING_ENTITIES[res.index],
                                news_hash |-> generate_gaming_news_hash(
                                                 entry, GAMING_ENTITIES[res.index])]
                     /\ pc' = "process"
                     /\ UNCHANGED <<fresh, srcIdx>>
                [] res.kind = "none" ->
                     /\ fresh' = Tail(fresh)
                     /\ UNCHANGED <<cur, pc, srcIdx>>
                [] res.kind = "raise" ->
                     \* AttributeError reaches `except: continue` of the source loop
                     /\ fresh' = <<>>
                     /\ pc' = "source"
                     /\ srcIdx' = srcIdx + 1
                     /\ UNCHANGED cur
    /\ UNCHANGED <<store, now, runs, ticks, pruneAt, sentThisRun, addedThisRun,
                   curated, delivered, alone>>

\* A search that goes on to the next entry whatever the send returned.
AfterSend_NeverReturns(res) == "entry"

\* A search that records the item whatever the send returned.
AfterSend_AlwaysMark(res) == "mark"

\* Where the search goes after send_gaming_telegram_post: on success to
\* mark_news_sent and `return True`, otherwise `break` to the next entry
\* (an exception would be caught at line 662, then `break`).
AfterSend(res) ==
    IF ~res.raised /\ res.ret THEN "mark" ELSE "entry"

\* Lines 652-665 for the picked entity: extract_gaming_image (a URL or
\* None, never an exception), create_gaming_post (may raise: caught at line
\* 662), send_gaming_telegram_post.
Process ==
    /\ pc = "process"
    /\ \E image_url \in ImageUrls, composeOk \in BOOLEAN, env \in SendEnvs :
         IF ~composeOk
         THEN /\ pc' = "entry"
              /\ fresh' = Tail(fresh)
              /\ UNCHANGED <<sentThisRun, delivered>>
         ELSE LET res == send_gaming_telegram_post(image_url, env)
              IN  /\ pc' = AfterSend(res)
                  /\ IF res.ret
                     THEN /\ sentThisRun' = sentThisRun + 1
                          /\ delivered' = delivered \cup
                                {[news_hash |-> cur.news_hash, entity |-> cur.entity,
                                  title |-> cur.entry.title, link |-> cur.entry.link]}
                     ELSE UNCHANGED <<sentThisRun, delivered>>
                  /\ IF AfterSend(res) = "mark"
                     THEN UNCHANGED fresh
                     ELSE fresh' = Tail(fresh)
    /\ UNCHANGED <<store, now, srcIdx, cur, runs, ticks, pruneAt, addedThisRun,
                   curated, foundMatched, lastLoop, alone>>

\* A __main__ that sends the curated post although the search succeeded.
Mark_IgnoreSuccess ==
    /\ pc = "mark"
    /\ store' = mark_news_sent(store, cur.news_hash, cur.entity, cur.entry.title, now)
    /\ addedThisRun' = addedThisRun + Cardinality(store' \ store)
    /\ dupMarked' = (dupMarked \/ \E r \in store : r.news_hash = cur.news_hash)
    /\ pc' = "curated"
    /\ UNCHANGED <<now, srcIdx, fresh, cur, runs, ticks, pruneAt, sentThisRun,
                   curated, foundMatched, lastLoop, delivered, calls>>

\* mark_news_sent(news_hash, entity, title); return True
Mark ==
    /\ pc = "mark"
    /\ store' = mark_news_sent(store, cur.news_hash, cur.entity, cur.entry.title, now)
    /\ addedThisRun' = addedThisRun + Cardinality(store' \ store)
    /\ dupMarked' = (dupMarked \/ \E r \in store : r.news_hash = cur.news_hash)
    /\ pc' = "done"
    /\ UNCHANGED <<now, srcIdx, fresh, cur, runs, ticks, pruneAt, sentThisRun,
                   curated, foundMatched, lastLoop, delivered, calls>>

\* All sources checked without a successful send: `return False`, and
\* __main__ goes on to send_gaming_curated_post.
SearchFailed ==
    /\ pc = "source"
    /\ srcIdx = SourcesToCheck
    /\ pc' = "curated"
    /\ UNCHANGED <<store, now, srcIdx, fresh, cur, runs, ticks, pruneAt,
                   sentThisRun, addedThisRun, curated, foundMatched, lastLoop,
                   delivered, alone>>

\* send_gaming_curated_post: compose (an exception of create_gaming_post is
\* not caught here and ends the process) and send without an image.
Curated ==
    /\ pc = "curated"
    /\ pc' = "done"
    /\ \E composeOk \in BOOLEAN, env \in SendEnvs :
         curated' = IF ~composeOk THEN "raised"
                    ELSE IF send_gaming_telegram_post(NoImage, env).ret
                         THEN "sent" ELSE "failed"
    /\ UNCHANGED <<store, now, srcIdx, fresh, cur, runs, ticks, pruneAt,
                   sentThisRun, addedThisRun, foundMatched, lastLoop,
                   delivered, alone>>

\* The process exits; the scheduler may start it again.
EndRun ==
    /\ pc = "done"
    /\ pc' = "idle"
    /\ UNCHANGED <<store, now, srcIdx, fresh, cur, runs, ticks, pruneAt,
                   sentThisRun, addedThisRun, curated, foundMatched, lastLoop,
                   delivered, alone>>

\* Time passes.  The clock is read at process start (the prune) and by
\* mark_news_sent (sent_date); the freshness of an item depends only on its
\* age at the fetch.  A tick anywhere else commutes with the steps up to
\* the next of these reads, so ticks are taken right before them.
Tick ==
    /\ pc \in {"idle", "mark"}
    /\ ticks < MaxTicks
    /\ \E d \in TickSteps : now' = now + d
    /\ ticks' = ticks + 1
    /\ UNCHANGED <<store, runState, alone>>

Next ==
    \/ StartRun
    \/ FetchSource
    \/ NextSource
    \/ SkipUntitled
    \/ MatchEntry
    \/ Process
    \/ Mark
    \/ SearchFailed
    \/ Curated
    \/ EndRun
    \/ Tick

Spec == Init /\ [][Next]_vars

(***************************************************************************)
(* The Dedup Store taken alone: any sequence of mark_news_sent and         *)
(* cleanup_old_news calls                                                  *)
(***************************************************************************)
StoreHashes   == {generate_gaming_news_hash(ItemNintendoMario, GAMING_ENTITIES[1]),
                  generate_gaming_news_hash(ItemSony, GAMING_ENTITIES[2])}
StoreEntities == {GAMING_ENTITIES[1], GAMING_ENTITIES[2]}
StoreTitles   == {ItemNintendoMario.title, ItemSony.title}

StoreMark(news_hash, game_company, title) ==
    /\ store' = mark_news_sent(store, news_hash, game_company, title, now)
    /\ dupMarked' = (dupMarked \/ \E r \in store : r.news_hash = news_hash)
    /\ UNCHANGED <<now, ticks, runState, calls>>

StoreCleanup ==
    /\ store' = cleanup_old_news(store, RETENTION_DAYS, now)
    /\ UNCHANGED <<now, ticks, runState, alone>>

NextStore ==
    \/ \E h \in StoreHashes, e \in StoreEntities, t \in StoreTitles : StoreMark(h, e, t)
    \/ StoreCleanup
    \/ Tick

SpecStore == Init /\ [][NextStore]_vars

(***************************************************************************)
(* send_gaming_telegram_post taken alone: every image argument and every   *)
(* behaviour of the three HTTP calls                                       *)
(***************************************************************************)
InitSend ==
    /\ RunInit
    /\ freshCall = NoFresh
    /\ RestIdle
    /\ sendCall \in {[state |-> "called", image_url |-> u, env |-> e,
                      ret |-> FALSE, raised |-> FALSE, calls |-> <<>>] :
                     u \in ImageUrls, e \in SendEnvs}

SendReturns ==
    /\ sendCall.state = "called"
    /\ LET res == send_gaming_telegram_post(sendCall.image_url, sendCall.env)
       IN  sendCall' = [sendCall EXCEPT !.state = "returned", !.ret = res.ret,
                                        !.raised = res.raised, !.calls = res.calls]
    /\ UNCHANGED <<store, now, ticks, runState, freshCall, dupMarked, imageCall, proc,
                   deliveries>>

NextSend == SendReturns

SpecSend == InitSend /\ [][NextSend]_vars

(***************************************************************************)
(* is_recent_gaming_news taken alone: every combination of date fields     *)
(***************************************************************************)
DateStrings ==
    {NoDate,
     [fmt |-> "garbage",       t |-> 0],
     [fmt |-> "rfc822_name",   t |-> T0 - Threshold],
     [fmt |-> "sql",           t |-> T0 - Threshold - 1],
     [fmt |-> "other",         t |-> T0],
     [fmt |-> "rfc822_offset", t |-> T0]}

FreshEntries ==
    {[title |-> <<"Sega">>, description |-> <<>>, link |-> <<"link">>,
      hasLink |-> TRUE, published |-> p, updated |-> u, created |-> c,
      pubDate |-> d] : p \in DateStrings, u \in DateStrings,
                       c \in DateStrings, d \in DateStrings}

InitFresh ==
    /\ RunInit
    /\ sendCall = NoSend
    /\ RestIdle
    /\ freshCall \in {[state |-> "called", entry |-> e,
                       max_hours_old |-> MAX_HOURS_OLD, clock |-> T0,
                       result |-> Returned(FALSE)] : e \in FreshEntries}

FreshReturns ==
    /\ freshCall.state = "called"
    /\ freshCall' = [freshCall EXCEPT
                        !.state = "returned",
                        !.result = is_recent_gaming_news(freshCall.entry,
                                       freshCall.max_hours_old, freshCall.clock)]
    /\ UNCHANGED <<store, now, ticks, runState, sendCall, dupMarked, imageCall, proc,
                   deliveries>>

NextFresh == FreshReturns

SpecFresh == InitFresh /\ [][NextFresh]_vars

(***************************************************************************)
(* Properties                                                              *)
(***************************************************************************)

\* C1: within one run the search stops at the first successful send: at
\* most one news delivery returns success, at most one row is added, and
\* once a send has returned success nothing is left but recording it and
\* returning (no further source, entry or entity is examined).
C1_StopsAtFirstSend ==
    /\ sentThisRun <= 1
    /\ addedThisRun <= 1
    /\ sentThisRun >= 1 => pc \in {"mark", "done", "idle"}

\* A run that ended after one delivery with entries and sources left over.
C1_Witness ==
    /\ pc = "done"
    /\ sentThisRun = 1
    /\ addedThisRun = 1
    /\ Len(fresh) > 1
    /\ srcIdx + 1 < SourcesToCheck

\* C2: a row exists only for a news delivery of that (title, link, entity)
\* whose send returned success; composing and sending (news or curated),
\* whatever their outcome, leave the store as it is.
C2_RecordOnlyOnSuccess ==
    /\ [](\A r \in store : \E d \in delivered :
              /\ d.news_hash = r.news_hash
              /\ d.news_hash = d.title \o <<"_">> \o d.link \o <<"_">> \o d.entity
              /\ d.entity = r.game_company
              /\ SubSeq(d.title, 1, IF Len(d.title) < 200 THEN Len(d.title) ELSE 200)
                     = r.title)
    /\ [][(pc \in {"process", "curated"}) => (store' = store)]_vars

\* Second run: the picked item could not be delivered, the curated post
\* was sent, and the store still holds only the row of the first run.
C2_Witness ==
    /\ runs = 2
    /\ pc = "done"
    /\ lastLoop.kind = "pick"
    /\ sentThisRun = 0
    /\ curated = "sent"
    /\ Cardinality(store) = 1
    /\ addedThisRun = 0

\* C3: nothing is composed or delivered for a (title, link, entity) whose
\* fingerprint has a row in the store.
C3_SentPairSkipped ==
    pc = "process" =>
        ~(\E r \in store :
              r.news_hash = cur.entry.title \o <<"_">> \o cur.entry.link
                                \o <<"_">> \o cur.entity)

\* An item all of whose matching entities are recorded was passed over.
C3_Witness ==
    /\ lastLoop.kind = "none"
    /\ lastLoop.skipped
    /\ store # {}

\* The first entry of the whole catalog whose lower-cased name is contained
\* in the lower-cased title+description; 0 if there is none.
FirstCatalogMatch(entry) ==
    LET text == Lower(entry.title \o entry.description)
        M    == {i \in 1..Len(GAMING_ENTITIES) : Contains(text, Lower(GAMING_ENTITIES[i]))}
    IN  IF M = {} THEN 0 ELSE CHOOSE i \in M : \A j \in M : i <= j

\* C4: the entity an item is processed with is the first catalog entry
\* contained in its text, whatever the store holds, and an item containing
\* any catalog entry is matched.
C4_FirstMatchWins ==
    lastLoop.kind # "idle" =>
        /\ lastLoop.kind = "pick" => lastLoop.index = FirstCatalogMatch(lastLoop.entry)
        /\ FirstCatalogMatch(lastLoop.entry) # 0 =>
               (lastLoop.kind # "none" \/ lastLoop.skipped)

\* C5 as stated: the curated post is attempted exactly when no fresh
\* matched item was found in the run.
C5_CuratedIffNothingFound ==
    pc = "done" => ((curated # "no") <=> ~foundMatched)

\* C5 amended: the curated post is attempted exactly when no news delivery
\* of the run returned success.
C5_CuratedIffNothingSent ==
    pc = "done" => ((curated # "no") <=> sentThisRun = 0)

\* A fresh matched item was found, not delivered, and the curated post sent.
C5_Witness ==
    /\ pc = "done"
    /\ foundMatched
    /\ lastLoop.kind = "pick"
    /\ sentThisRun = 0
    /\ curated = "sent"
    /\ runs = 1

Attempted(op) == \E i \in 1..Len(sendCall.calls) : sendCall.calls[i].op = op

\* C6: with an image URL, every failure on the photo path is followed by a
\* text-only attempt, and the photo is attempted only after a 200 fetch of
\* more than 5000 bytes.
C6_AnyPhotoFailureFallsBack ==
    (sendCall.state = "returned" /\ sendCall.image_url # NoImage) =>
        LET e         == sendCall.env
            fetchGood == ~e.fetch.raised /\ e.fetch.status = 200 /\ e.fetch.len > 5000
            photoGood == fetchGood /\ ~e.photo.raised /\ e.photo.status = 200
        IN  /\ ~photoGood => Attempted("sendMessage")
            /\ Attempted("sendPhoto") => fetchGood

\* C7: send_gaming_telegram_post never raises; it returns true only if the
\* last request it made was a delivery answered with 200; an exception in
\* any request gives false.
C7_SendNeverRaises ==
    sendCall.state = "returned" =>
        /\ ~sendCall.raised
        /\ sendCall.ret =>
              /\ sendCall.calls # <<>>
              /\ LET last == sendCall.calls[Len(sendCall.calls)]
                 IN  /\ last.op \in {"sendPhoto", "sendMessage"}
                     /\ ~last.raised
                     /\ last.status = 200
        /\ (\E i \in 1..Len(sendCall.calls) : sendCall.calls[i].raised) => ~sendCall.ret

\* The photo was refused and the text fallback succeeded.
C7_Witness ==
    /\ sendCall.state = "returned"
    /\ sendCall.ret
    /\ Len(sendCall.calls) = 3

\* C8: the store never holds two rows with one fingerprint, and marking a
\* fingerprint that is present changes nothing.
C8_DedupIdempotent ==
    /\ [](\A r1 \in store, r2 \in store : r1.news_hash = r2.news_hash => r1 = r2)
    /\ [][\A h \in StoreHashes, e \in StoreEntities, t \in StoreTitles :
              (StoreMark(h, e, t) /\ \E r \in store : r.news_hash = h)
                  => store' = store]_vars

\* A present fingerprint was marked again, later, with both rows in place.
C8_Witness ==
    /\ dupMarked
    /\ Cardinality(store) = 2
    /\ \E r \in store : r.sent_date < now

RetentionWindow == RETENTION_DAYS * SECONDS_PER_DAY

\* C9: the prune at process start deletes exactly the rows older than
\* now minus the retention window (the others stay as they are, a pruned
\* fingerprint is no longer seen), so during the search no row older than
\* the window, as of the prune, is in the store to suppress a delivery.
C9_Retention ==
    /\ [][runs' # runs =>
            /\ store' \subseteq store
            /\ \A r \in store : (r \in store') <=> ~(r.sent_date < now - RetentionWindow)
            /\ \A r \in store : r.sent_date < now - RetentionWindow =>
                   ~(\E q \in store' : q.news_hash = r.news_hash)]_vars
    /\ [](pc \in {"source", "entry", "process", "mark"} =>
              \A r \in store : ~(r.sent_date < pruneAt - RetentionWindow))

\* An item delivered and recorded before is processed again after its row
\* was pruned.
C9_Witness ==
    /\ pc = "process"
    /\ \E d \in delivered : d.news_hash = cur.news_hash
    /\ store = {}
    /\ now > T0 + RetentionWindow

\* A date string some format accepts.
Parses(d) == d # NoDate /\ d.fmt # "garbage"

\* C10: is_recent_gaming_news returns a boolean for every entry: true iff
\* the first of published, updated, created, pubDate that parses is at most
\* max_hours_old hours before now.
C10_FreshIffWithinThreshold ==
    freshCall.state = "returned" =>
        LET e      == freshCall.entry
            order  == <<"published", "updated", "created", "pubDate">>
            P      == {i \in 1..4 : Parses(e[order[i]])}
            first  == CHOOSE i \in P : \A j \in P : i <= j
            wanted == /\ P # {}
                      /\ freshCall.clock - e[order[first]].t
                            <= freshCall.max_hours_old * 3600
        IN  /\ ~freshCall.result.raised
            /\ freshCall.result.value = wanted

(***************************************************************************)
(* Image candidates: is_valid_gaming_image                                 *)
(***************************************************************************)
\* A URL is a sequence of words, the first being what it starts with
\* ("https://", "//", "/", ...).  Containment of a term inside a single
\* word is by character, so the words of the model that contain a term
\* besides themselves are listed.
SubstringTable == {<<"xlarge", "large">>, <<"smallest", "small">>}

Parts(w) == {w} \cup {p[2] : p \in {q \in SubstringTable : q[1] = w}}

\* `term in url.lower()`
UrlHas(url, term) == \E i \in 1..Len(url) : term \in Parts(LowerWord(url[i]))

valid_extensions == {".jpg", ".jpeg", ".png", ".webp"}

excluded_terms == {"icon", "logo", "thumbnail", "small", "avatar", "sprite"}

\* url.startswith(('http://', 'https://')) compares the characters as
\* they are; the other two checks are made on url.lower().
is_valid_gaming_image(url) ==
    IF ~(Head(url) \in {"http://", "https://"}) THEN FALSE
    ELSE IF ~(\E ext \in valid_extensions : UrlHas(url, ext)) THEN FALSE
    ELSE IF \E term \in excluded_terms : UrlHas(url, term) THEN FALSE
    ELSE TRUE

UrlPrefixes == {"https://", "http://", "HTTPS://", "//", "/", "images/"}
UrlNames    == {"hero", "photo", "logo", "LOGO", "xlarge", "smallest"}
UrlExts     == {".jpg", ".jpeg", ".PNG", ".webp", ".gif"}

Urls == {<<p, "cdn", n, e>> : p \in UrlPrefixes, n \in UrlNames, e \in UrlExts}

OthersIdle ==
    /\ RunInit
    /\ sendCall = NoSend
    /\ freshCall = NoFresh
    /\ proc = NoProc
    /\ deliveries = <<>>

InitValid ==
    /\ OthersIdle
    /\ imageCall \in {[state |-> "called", url |-> u, result |-> FALSE] : u \in Urls}

ValidReturns ==
    /\ imageCall.state = "called"
    /\ imageCall' = [imageCall EXCEPT !.state = "returned",
                                      !.result = is_valid_gaming_image(imageCall.url)]
    /\ UNCHANGED <<store, now, ticks, runState, sendCall, freshCall, dupMarked,
                   proc, deliveries>>

NextValid == ValidReturns

SpecValid == InitValid /\ [][NextValid]_vars

\* C11: a URL is accepted iff it starts with http://, https://, // or /,
\* contains a raster extension and contains no denylisted term, all three
\* without regard to case.
C11_ValidIffAbsoluteCapableRaster ==
    imageCall.state = "returned" =>
        LET u      == Lower(imageCall.url)
            wanted == /\ u[1] \in {"http://", "https://", "//", "/"}
                      /\ \E ext \in {".jpg", ".jpeg", ".png", ".webp"} :
                             UrlHas(imageCall.url, ext)
                      /\ ~(\E term \in {"icon", "logo", "thumbnail", "small",
                                        "avatar", "sprite"} :
                               UrlHas(imageCall.url, term))
        IN  imageCall.result = wanted

(***************************************************************************)
(* Image candidates: rate_gaming_image_quality                             *)
(***************************************************************************)
\* An attribute value is the sequence of its characters; <<>> is the ''
\* that element.get(name, '') gives for a missing attribute.
DigitTable == {<<"0", 0>>, <<"1", 1>>, <<"2", 2>>, <<"3", 3>>, <<"4", 4>>,
               <<"5", 5>>, <<"6", 6>>, <<"7", 7>>, <<"8", 8>>, <<"9", 9>>}

IsDigit(c) == \E p \in DigitTable : p[1] = c

DigitValue(c) == (CHOOSE p \in DigitTable : p[1] = c)[2]

RECURSIVE DecimalValue(_)
DecimalValue(digits) ==
    IF digits = <<>> THEN 0
    ELSE 10 * DecimalValue(SubSeq(digits, 1, Len(digits) - 1))
         + DigitValue(digits[Len(digits)])

\* int(''.join(filter(str.isdigit, str(value)))): int('') raises ValueError
IntOfDigits(value) ==
    LET digits == SelectSeq(value, IsDigit)
    IN  IF digits = <<>> THEN [raised |-> TRUE, value |-> 0]
        ELSE [raised |-> FALSE, value |-> DecimalValue(digits)]

quality_indicators == <<"large", "xlarge", "original", "full", "main", "hero", "featured">>

\* The width/height block: both attributes non-empty, and any exception of
\* the two conversions is swallowed before a bonus is added.
SizeScore(width, height) ==
    IF width # <<>> /\ height # <<>>
    THEN LET w == IntOfDigits(width)
             h == IntOfDigits(height)
         IN  IF w.raised \/ h.raised THEN 0
             ELSE (IF w.value > 400 /\ h.value > 300 THEN 50 ELSE 0)
                  + (IF w.value > 800 /\ h.value > 600 THEN 30 ELSE 0)
    ELSE 0

IndicatorScore(url) ==
    20 * Cardinality({i \in 1..Len(quality_indicators) : UrlHas(url, quality_indicators[i])})

rate_gaming_image_quality_SmallMetaBonus(url, element) ==
    (IF element.name = "meta" THEN 20 ELSE 0)
    + SizeScore(element.width, element.height)
    + IndicatorScore(url)

rate_gaming_image_quality(url, element) ==
    (IF element.name = "meta" THEN 100 ELSE 0)
    + SizeScore(element.width, element.height)
    + IndicatorScore(url)

RateUrls ==
    { <<"https://", "cdn", "photo", ".jpg">>,
      <<"https://", "cdn", "hero", ".jpg">>,
      <<"http://", "cdn", "xlarge", ".webp">>,
      <<"https://", "cdn", "original", "full", "main", "hero", ".jpg">>,
      <<"https://", "cdn", "featured", "original", "full", "main", "hero", ".jpg">>,
      <<"https://", "cdn", "xlarge", "original", "full", "main", "hero", "featured", ".PNG">> }

Widths  == { <<>>, <<"4", "0", "0">>, <<"5", "0", "0">>, <<"9", "0", "0", "p", "x">>,
             <<"a", "u", "t", "o">> }
Heights == { <<>>, <<"3", "0", "0">>, <<"4", "0", "0">>, <<"7", "0", "0">>, <<"5", "0", "%">> }

\* Two valid candidates with the same width/height attributes, one from a
\* metadata tag and one from an image tag.
InitRate ==
    /\ OthersIdle
    /\ imageCall \in {[state |-> "rating", metaUrl |-> m, imgUrl |-> u,
                       width |-> w, height |-> h, metaScore |-> 0, imgScore |-> 0] :
                          m \in {x \in RateUrls : is_valid_gaming_image(x)},
                          u \in {x \in RateUrls : is_valid_gaming_image(x)},
                          w \in Widths, h \in Heights}

RateReturns ==
    /\ imageCall.state = "rating"
    /\ imageCall' =
         [imageCall EXCEPT
            !.state = "rated",
            !.metaScore = rate_gaming_image_quality(imageCall.metaUrl,
                              [name |-> "meta", width |-> imageCall.width,
                               height |-> imageCall.height]),
            !.imgScore = rate_gaming_image_quality(imageCall.imgUrl,
                              [name |-> "img", width |-> imageCall.width,
                               height |-> imageCall.height])]
    /\ UNCHANGED <<store, now, ticks, runState, sendCall, freshCall, dupMarked,
                   proc, deliveries>>

NextRate == RateReturns

SpecRate == InitRate /\ [][NextRate]_vars

\* number of quality keywords contained in a URL
KeywordCount(url) ==
    Cardinality({k \in {"large", "xlarge", "original", "full", "main", "hero", "featured"} :
                    UrlHas(url, k)})

\* C12 as stated: of two valid candidates with the same width/height
\* attributes, the one from a metadata tag always scores strictly higher
\* than the one from an image tag, whatever their URLs.
C12_MetaAlwaysOutranks ==
    imageCall.state = "rated" => imageCall.metaScore > imageCall.imgScore

\* C12 amended: of two valid candidates with the same width/height
\* attributes, the metadata one scores exactly 100 + 20 * (its keywords -
\* the other's keywords) more than the image-tag one, hence strictly higher
\* exactly when the image-tag URL has fewer than five keywords more.
C12_MetaOutranksUnlessFiveMoreKeywords ==
    imageCall.state = "rated" =>
        LET km == KeywordCount(imageCall.metaUrl)
            ki == KeywordCount(imageCall.imgUrl)
        IN  /\ imageCall.metaScore - imageCall.imgScore = 100 + 20 * (km - ki)
            /\ (imageCall.metaScore > imageCall.imgScore) <=> (ki - km < 5)
            /\ imageCall.imgScore >= 20 * ki
            /\ imageCall.imgScore <= 20 * ki + 80

\* a same-size pair, both with the two size bonuses, whose image-tag URL has
\* four keywords more than the metadata URL: the metadata one still wins
C12_Witness ==
    /\ imageCall.state = "rated"
    /\ KeywordCount(imageCall.imgUrl) - KeywordCount(imageCall.metaUrl) = 4
    /\ imageCall.imgScore = 80 + 20 * KeywordCount(imageCall.imgUrl)
    /\ imageCall.metaScore > imageCall.imgScore

(***************************************************************************)
(* Image candidates: extract_gaming_image                                  *)
(***************************************************************************)
MaxDocLen == 3       \* elements of a fetched page

image_selectors ==
    << "meta[property=og:image]",
       "meta[name=twitter:image]",
       "meta[property=twitter:image:src]",
       "article img",
       ".wp-post-image",
       ".article-image img",
       ".post-image img",
       ".entry-content img",
       ".content img",
       "figure img",
       ".hero-image img",
       ".main-image img",
       ".featured-image img",
       "[class*=image] img",
       "img[src*=large]",
       "img[src*=medium]",
       "img" >>

\* selector.startswith('meta')
StartsWithMeta(selector) ==
    selector \in {"meta[property=og:image]", "meta[name=twitter:image]",
                  "meta[property=twitter:image:src]"}

\* An element of the parsed page: its tag name, the selectors it matches,
\* and its attributes (<<>> for a missing or empty one).
Element(name, selectors, content, src, data_src, data_lazy_src, width, height) ==
    [name |-> name, selectors |-> selectors, content |-> content, src |-> src,
     data_src |-> data_src, data_lazy_src |-> data_lazy_src,
     width |-> width, height |-> height]

\* soup.select(selector): the matching elements in document order
Select(soup, selector) == SelectSeq(soup, LAMBDA element : selector \in element.selectors)

ImageUrlOf(selector, element) ==
    IF StartsWithMeta(selector) THEN element.content
    ELSE IF element.src # <<>> THEN element.src
    ELSE IF element.data_src # <<>> THEN element.data_src
    ELSE element.data_lazy_src

\* the inner loop over the elements of one selector
RECURSIVE AppendCandidates(_, _, _)
AppendCandidates(candidates, selector, elements) ==
    IF elements = <<>> THEN candidates
    ELSE LET element   == Head(elements)
             image_url == ImageUrlOf(selector, element)
             next == IF image_url # <<>> /\ is_valid_gaming_image(image_url)
                     THEN Append(candidates,
                                 [url |-> image_url,
                                  score |-> rate_gaming_image_quality(image_url, element)])
                     ELSE candidates
         IN  AppendCandidates(next, selector, Tail(elements))

\* the outer loop over image_selectors, from the s-th on
RECURSIVE CollectCandidates(_, _, _)
CollectCandidates(candidates, soup, s) ==
    IF s > Len(image_selectors) THEN candidates
    ELSE CollectCandidates(
             AppendCandidates(candidates, image_selectors[s],
                              Select(soup, image_selectors[s])),
             soup, s + 1)

Candidates(soup) == CollectCandidates(<<>>, soup, 1)

\* list.sort(key=score, reverse=True) is stable: an element goes after
\* every element whose score is at least its own.
InsertByScore_BeforeEqual(sorted, x) ==
    LET n == Cardinality({i \in 1..Len(sorted) : sorted[i].score > x.score})
    IN  SubSeq(sorted, 1, n) \o <<x>> \o SubSeq(sorted, n + 1, Len(sorted))

InsertByScore(sorted, x) ==
    LET n == Cardinality({i \in 1..Len(sorted) : sorted[i].score >= x.score})
    IN  SubSeq(sorted, 1, n) \o <<x>> \o SubSeq(sorted, n + 1, Len(sorted))

RECURSIVE SortByScore(_)
SortByScore(candidates) ==
    IF candidates = <<>> THEN <<>>
    ELSE InsertByScore(SortByScore(SubSeq(candidates, 1, Len(candidates) - 1)),
                       candidates[Len(candidates)])

\* urljoin(url, '/path'): scheme and host of the page, then the path
Urljoin(base, path) == SubSeq(base, 1, 2) \o Tail(path)

Normalized(url, best_image) ==
    IF Head(best_image) = "//" THEN <<"https://">> \o Tail(best_image)
    ELSE IF Head(best_image) = "/" THEN Urljoin(url, best_image)
    ELSE best_image

NoImageFound == [raised |-> FALSE, found |-> FALSE, url |-> <<>>]

\* The body of the try block: requests.get or the parser may raise;
\* otherwise the candidates are collected, sorted, and the first one taken.
ExtractBody(url, outcome, soup) ==
    IF outcome # "ok" THEN [raised |-> TRUE, found |-> FALSE, url |-> <<>>]
    ELSE LET candidates == SortByScore(Candidates(soup))
         IN  IF candidates # <<>>
             THEN [raised |-> FALSE, found |-> TRUE,
                   url |-> Normalized(url, candidates[1].url)]
             ELSE NoImageFound

\* `except Exception` logs and falls through to `return None`
extract_gaming_image(url, outcome, soup) ==
    LET body == ExtractBody(url, outcome, soup)
    IN  IF body.raised THEN NoImageFound ELSE body

PageUrl == <<"https://", "site", "news">>

MetaOg      == Element("meta", {"meta[property=og:image]"},
                       <<"https://", "cdn", "photo", ".jpg">>, <<>>, <<>>, <<>>, <<>>, <<>>)
MetaTwitter == Element("meta", {"meta[name=twitter:image]"},
                       <<"https://", "cdn", "cover", ".jpg">>, <<>>, <<>>, <<>>, <<>>, <<>>)
MetaHero    == Element("meta", {"meta[property=twitter:image:src]"},
                       <<"https://", "cdn", "hero", ".webp">>, <<>>, <<>>, <<>>, <<>>, <<>>)
ImgBig      == Element("img", {"article img", "img"}, <<>>,
                       <<"https://", "cdn", "original", "full", "main", "hero", ".jpg">>,
                       <<>>, <<>>, <<"9", "0", "0">>, <<"7", "0", "0">>)
ImgLazy     == Element("img", {"img"}, <<>>, <<>>,
                       <<"https://", "cdn", "hero", ".jpg">>, <<>>, <<>>, <<>>)
ImgLarge    == Element("img", {"img[src*=large]", "img"}, <<>>,
                       <<"https://", "cdn", "large", ".jpg">>, <<>>, <<>>, <<>>, <<>>)
ImgLogo     == Element("img", {"figure img", "img"}, <<>>,
                       <<"https://", "cdn", "logo", ".png">>, <<>>, <<>>, <<>>, <<>>)
ImgRelative == Element("img", {"img"}, <<>>,
                       <<"//", "cdn", "featured", "hero", ".jpg">>, <<>>, <<>>, <<>>, <<>>)
ImgBare     == Element("img", {"img"}, <<>>, <<>>, <<>>, <<>>, <<>>, <<>>)

DocElements == {MetaOg, MetaTwitter, MetaHero, ImgBig, ImgLazy, ImgLarge, ImgLogo,
                ImgRelative, ImgBare}

Docs == UNION {[1..n -> DocElements] : n \in 0..MaxDocLen}

ExtractOutcomes == {"ok", "fetch_raises", "parse_raises"}

InitExtract ==
    /\ OthersIdle
    /\ imageCall \in {[state |-> "extracting", url |-> PageUrl, outcome |-> o,
                       soup |-> s, result |-> NoImageFound] :
                          o \in ExtractOutcomes, s \in Docs}

ExtractReturns ==
    /\ imageCall.state = "extracting"
    /\ imageCall' = [imageCall EXCEPT
                       !.state = "extracted",
                       !.result = extract_gaming_image(imageCall.url, imageCall.outcome,
                                                       imageCall.soup)]
    /\ UNCHANGED <<store, now, ticks, runState, sendCall, freshCall, dupMarked,
                   proc, deliveries>>

NextExtract == ExtractReturns

SpecExtract == InitExtract /\ [][NextExtract]_vars

\* C13: extract_gaming_image never raises; it returns none exactly when the
\* fetch or the parse failed or there is no valid candidate; otherwise it
\* returns the URL of the first candidate, in extraction order (selector
\* order, then document order), among those with the maximum score.
C13_FirstBestCandidate ==
    imageCall.state = "extracted" =>
        LET c == Candidates(imageCall.soup)
            r == imageCall.result
        IN  /\ ~r.raised
            /\ r.found <=> (imageCall.outcome = "ok" /\ c # <<>>)
            /\ r.found =>
                 \E j \in 1..Len(c) :
                    /\ r.url = c[j].url
                    /\ \A k \in 1..Len(c) : c[k].score <= c[j].score
                    /\ \A k \in 1..(j - 1) : c[k].score < c[j].score

\* two different candidates tie on the maximum score, and the one returned
\* is the one extracted first although it comes later in the document
C13_Witness ==
    /\ imageCall.state = "extracted"
    /\ imageCall.result.found
    /\ LET c == Candidates(imageCall.soup)
       IN  \E j \in 1..Len(c), k \in 1..Len(c) :
              /\ j < k
              /\ c[j].url # c[k].url
              /\ c[j].score = c[k].score
              /\ \A m \in 1..Len(c) : c[m].score <= c[j].score
              /\ imageCall.result.url = c[j].url
    /\ Len(imageCall.soup) >= 2
    /\ imageCall.soup[1].content # imageCall.result.url
    /\ imageCall.soup[1].src # imageCall.result.url

(***************************************************************************)
(* Two invocations of the bot at the same time on one Dedup Store          *)
(***************************************************************************)
\* Each invocation is a process of its own with its own local variables
\* (proc[p]); the sent_news table is shared.  SQLite serialises writers:
\* an INSERT takes the write lock at execute and gives it back at commit,
\* and a second writer waits for it.  A process at "commit" holds the lock.
WriteLockFree == \A q \in Procs : proc[q].pc # "commit"

\* The INSERT of a fingerprint that is in the table violates UNIQUE:
\* sqlite3.IntegrityError.
InsertIntegrityError(db, news_hash) == \E r \in db : r.news_hash = news_hash

\* A mark_news_sent that lets the IntegrityError out.
MarkRaises_NoExcept(integrityError) == integrityError

\* `except sqlite3.IntegrityError: pass`: the error does not leave
\* mark_news_sent.
MarkRaises(integrityError) == FALSE

OldRow ==
    [news_hash |-> generate_gaming_news_hash(ItemSony, GAMING_ENTITIES[2]),
     game_company |-> GAMING_ENTITIES[2], title |-> ItemSony.title,
     sent_date |-> T0 - RETENTION_DAYS * SECONDS_PER_DAY - 1]

RecentRow ==
    [news_hash |-> generate_gaming_news_hash(ItemNintendoMario, GAMING_ENTITIES[1]),
     game_company |-> GAMING_ENTITIES[1], title |-> ItemNintendoMario.title,
     sent_date |-> T0 - 1]

\* the table as earlier invocations may have left it
ConcStores == { {}, {OldRow}, {RecentRow} }

ConcFeeds == { <<>>, <<ItemNintendoMario>>, <<ItemUntitled, ItemSony>> }

concRest == <<now, ticks, runState, sendCall, freshCall, dupMarked, imageCall>>

InitConc ==
    /\ store \in ConcStores
    /\ now = T0
    /\ pc = "idle"
    /\ srcIdx = 0
    /\ fresh = <<>>
    /\ cur = NoCur
    /\ runs = 0
    /\ ticks = 0
    /\ pruneAt = T0
    /\ sentThisRun = 0
    /\ addedThisRun = 0
    /\ curated = "no"
    /\ foundMatched = FALSE
    /\ lastLoop = NoLoop
    /\ delivered = {}
    /\ dupMarked = FALSE
    /\ sendCall = NoSend
    /\ freshCall = NoFresh
    /\ RestIdle

\* init_database(); cleanup_old_news(days=5); the search begins
ConcStart(p) ==
    /\ proc[p].pc = "idle"
    /\ WriteLockFree
    /\ store' = cleanup_old_news(store, RETENTION_DAYS, now)
    /\ proc' = [proc EXCEPT ![p].pc = "source"]
    /\ UNCHANGED <<deliveries, concRest>>

ConcFetch(p) ==
    /\ proc[p].pc = "source"
    /\ proc[p].srcIdx < SourcesToCheck
    /\ \E feed \in ConcFeeds :
         LET entries == [i \in 1..Len(feed) |-> Stamp(feed[i], now)]
             f == FilterFresh(Take(entries, ENTRIES_TO_CHECK), now, 1, <<>>)
         IN  proc' = [proc EXCEPT
                        ![p].pc = AfterFetch(f),
                        ![p].srcIdx = IF AfterFetch(f) = "source" THEN @ + 1 ELSE @,
                        ![p].fresh = IF AfterFetch(f) = "source" THEN <<>>
                                     ELSE Take(f.fresh, FRESH_TO_PROCESS)]
    /\ UNCHANGED <<store, deliveries, concRest>>

ConcNextSource(p) ==
    /\ proc[p].pc = "entry"
    /\ proc[p].fresh = <<>>
    /\ proc' = [proc EXCEPT ![p].pc = "source", ![p].srcIdx = @ + 1]
    /\ UNCHANGED <<store, deliveries, concRest>>

ConcSkipUntitled(p) ==
    /\ proc[p].pc = "entry"
    /\ proc[p].fresh # <<>>
    /\ Head(proc[p].fresh).title = <<>>
    /\ proc' = [proc EXCEPT ![p].fresh = Tail(@)]
    /\ UNCHANGED <<store, deliveries, concRest>>

\* the entity loop with its is_news_sent check, reading the shared table
ConcMatch(p) ==
    /\ proc[p].pc = "entry"
    /\ proc[p].fresh # <<>>
    /\ Head(proc[p].fresh).title # <<>>
    /\ LET entry == Head(proc[p].fresh)
           res   == EntityLoop(entry, store, 1)
       IN  CASE res.kind = "pick" ->
                  proc' = [proc EXCEPT
                             ![p].pc = "process",
                             ![p].cur = [entry |-> entry,
                                         entity |-> GAMING_ENTITIES[res.index],
                                         news_hash |-> generate_gaming_news_hash(
                                                          entry, GAMING_ENTITIES[res.index])]]
             [] res.kind = "none" ->
                  proc' = [proc EXCEPT ![p].fresh = Tail(@)]
             [] res.kind = "raise" ->
                  proc' = [proc EXCEPT ![p].pc = "source", ![p].srcIdx = @ + 1,
                                       ![p].fresh = <<>>]
    /\ UNCHANGED <<store, deliveries, concRest>>

\* extract, compose and send for the picked entity
ConcProcess(p) ==
    /\ proc[p].pc = "process"
    /\ \E image_url \in ImageUrls, composeOk \in BOOLEAN, env \in SendEnvs :
         IF ~composeOk
         THEN /\ proc' = [proc EXCEPT ![p].pc = "entry", ![p].fresh = Tail(@)]
              /\ UNCHANGED deliveries
         ELSE LET res == send_gaming_telegram_post(image_url, env)
              IN  /\ proc' = [proc EXCEPT
                                ![p].pc = AfterSend(res),
                                ![p].fresh = IF AfterSend(res) = "mark" THEN @ ELSE Tail(@)]
                  /\ deliveries' = IF res.ret
                                   THEN Append(deliveries,
                                               [proc |-> p, news_hash |-> proc[p].cur.news_hash])
                                   ELSE deliveries
    /\ UNCHANGED <<store, concRest>>

\* mark_news_sent, cursor.execute(INSERT ...): waits for the write lock;
\* a fingerprint already committed gives IntegrityError, which is swallowed
\* (the search then returns True); were it to leave mark_news_sent, the
\* `except Exception` of line 662 would log it and `break`.
ConcMarkExecute(p) ==
    /\ proc[p].pc = "mark"
    /\ WriteLockFree
    /\ LET err == InsertIntegrityError(store, proc[p].cur.news_hash)
       IN  proc' = [proc EXCEPT
                      ![p].integrityError = err,
                      ![p].markError = MarkRaises(err),
                      ![p].pc = IF ~err THEN "commit"
                                ELSE IF MarkRaises(err) THEN "entry" ELSE "done",
                      ![p].fresh = IF err /\ MarkRaises(err) THEN Tail(@) ELSE @]
    /\ UNCHANGED <<store, deliveries, concRest>>

\* mark_news_sent, conn.commit(); return True
ConcMarkCommit(p) ==
    /\ proc[p].pc = "commit"
    /\ store' = mark_news_sent(store, proc[p].cur.news_hash, proc[p].cur.entity,
                               proc[p].cur.entry.title, now)
    /\ proc' = [proc EXCEPT ![p].pc = "done"]
    /\ UNCHANGED <<deliveries, concRest>>

ConcSearchFailed(p) ==
    /\ proc[p].pc = "source"
    /\ proc[p].srcIdx = SourcesToCheck
    /\ proc' = [proc EXCEPT ![p].pc = "curated"]
    /\ UNCHANGED <<store, deliveries, concRest>>

\* send_gaming_curated_post: no effect on the table
ConcCurated(p) ==
    /\ proc[p].pc = "curated"
    /\ proc' = [proc EXCEPT ![p].pc = "done"]
    /\ UNCHANGED <<store, deliveries, concRest>>

NextConc ==
    \/ \E p \in Procs : ConcStart(p)
    \/ \E p \in Procs : ConcFetch(p)
    \/ \E p \in Procs : ConcNextSource(p)
    \/ \E p \in Procs : ConcSkipUntitled(p)
    \/ \E p \in Procs : ConcMatch(p)
    \/ \E p \in Procs : ConcProcess(p)
    \/ \E p \in Procs : ConcMarkExecute(p)
    \/ \E p \in Procs : ConcMarkCommit(p)
    \/ \E p \in Procs : ConcSearchFailed(p)
    \/ \E p \in Procs : ConcCurated(p)

SpecConc == InitConc /\ [][NextConc]_vars

\* C14: with two invocations at the same time no fingerprint ever has two
\* rows in the store, no invocation fails on its insert, and when both have
\* finished every delivered fingerprint has exactly one row; the same
\* fingerprint can be delivered by both (the witness).
C14_OneRecordNoInsertFailure ==
    /\ \A r1 \in store, r2 \in store : r1.news_hash = r2.news_hash => r1 = r2
    /\ \A p \in Procs : ~proc[p].markError
    /\ (\A p \in Procs : proc[p].pc = "done") =>
          \A i \in 1..Len(deliveries) :
             Cardinality({r \in store : r.news_hash = deliveries[i].news_hash}) = 1

\* both invocations passed the dedup check for one fingerprint and both
\* delivered it; the second insert met the unique constraint, and the store
\* holds one row
C14_Witness ==
    /\ \A p \in Procs : proc[p].pc = "done"
    /\ Len(deliveries) = 2
    /\ deliveries[1].news_hash = deliveries[2].news_hash
    /\ deliveries[1].proc # deliveries[2].proc
    /\ \E p \in Procs : proc[p].integrityError
    /\ Cardinality({r \in store : r.news_hash = deliveries[1].news_hash}) = 1

(***************************************************************************)
(* Deduplication per feed item                                             *)
(***************************************************************************)
\* the delivery is still on record: its row has not been pruned
OnRecord(d) == \E r \in store : r.news_hash = d.news_hash

\* C15: across sequential runs within the retention window a feed item
\* (same title and link) is successfully delivered at most once: any two
\* successful deliveries of one item that are both still on record are the
\* same delivery.
C15_ItemDeliveredOnce ==
    \A d1 \in delivered, d2 \in delivered :
        (/\ d1.title = d2.title
         /\ d1.link = d2.link
         /\ OnRecord(d1)
         /\ OnRecord(d2)) => d1 = d2
=============================================================================
